---- MODULE Spec2Model ----
(***************************************************************************)
(* Model of the Atlas Command voice bridge (src/server.ts and              *)
(* src/voiceBridgeCallLogger.ts): one telephony connection (one            *)
(* TwilioStreamContext), the realtime links it opens, the energy VAD and   *)
(* barge-in gate, the transcript assembly and the end-of-call pipeline     *)
(* saveTranscriptAndSummary / logCallToSupabase / cleanup.                 *)
(*                                                                         *)
(* Strings whose contents the code inspects (transcript, assistant buffer, *)
(* caller text) are sequences of one-character strings; identifiers and    *)
(* opaque texts are atoms.  Every event handler of the code is one action. *)
(* The `stop` handler is async: it is one action up to its first real      *)
(* suspension (the summary fetch or the call-log fetch) and one action per *)
(* resumption.                                                             *)
(***************************************************************************)
EXTENDS Integers, Sequences, FiniteSets, TLC

(* ------------------------------ bounds -------------------------------- *)

\* Largest number of telephony `start` frames (realtime links) in a session.
MaxStarts == 2
\* Largest number of telephony `stop` frames handled in a session.
MaxStops == 2
\* Largest number of telephony `media` frames handled in a session.
MaxMedia == 2
\* Largest number of realtime text events (deltas, completions, caller
\* transcriptions) handled in a session.
MaxText == 3
\* Largest number of clock advances.
MaxTicks == 3
\* Largest number of realtime audio deltas handled in a session.
MaxAudio == 2

(* ------------------------- program constants -------------------------- *)

ENERGY_THRESHOLD == 500
HANGOVER_MS == 600
SUMMARY_MIN_LENGTH == 40

\* One clock advance, in milliseconds: half the hangover, so that a gap of
\* exactly HANGOVER_MS and gaps on both sides of it occur.
TickMs == HANGOVER_MS \div 2

(* ------------------------------ values -------------------------------- *)

\* JavaScript null / undefined for atoms, and for the timestamp.
Null == "null"
NullTime == -1

\* randomUUID() of the connection.
ConnectionId == "conn-1"

(* ------------------------------ strings ------------------------------- *)

IsWhitespace(c) == c \in {" ", "\n"}

RECURSIVE TrimStart(_)
TrimStart(s) ==
    IF s = <<>> THEN <<>>
    ELSE IF IsWhitespace(Head(s)) THEN TrimStart(Tail(s))
    ELSE s

RECURSIVE TrimEnd(_)
TrimEnd(s) ==
    IF s = <<>> THEN <<>>
    ELSE IF IsWhitespace(s[Len(s)]) THEN TrimEnd(SubSeq(s, 1, Len(s) - 1))
    ELSE s

\* String.prototype.trim
Trim(s) == TrimEnd(TrimStart(s))

CallerPrefix == <<"\n", "C", "a", "l", "l", "e", "r", ":", " ">>
DipsyPrefix == <<"\n", "D", "i", "p", "s", "y", ":", " ">>

\* `\nCaller: ${callerText.trim()}\n`
CallerSegment(callerText) == CallerPrefix \o Trim(callerText) \o <<"\n">>

\* `\nDipsy: ${ctx.assistantBuffer.trim()}\n`
DipsySegment(buffer) == DipsyPrefix \o Trim(buffer) \o <<"\n">>

(* ------------------------------- codec -------------------------------- *)

RECURSIVE Pow2(_)
Pow2(n) == IF n = 0 THEN 1 ELSE 2 * Pow2(n - 1)

\* Mutant of mulawToLinearSample: the bias is not taken off again.
mulawToLinearSample_KeepsBias(u) ==
    LET uVal == 255 - u
        sign == uVal \div 128
        exponent == (uVal \div 16) % 8
        mantissa == uVal % 16
        sample == ((mantissa * 8) + 132) * Pow2(exponent)
    IN IF sign = 1 THEN 0 - sample ELSE sample

\* mulawToLinearSample: one 8-bit mu-law value to a linear sample.
mulawToLinearSample(u) ==
    LET uVal == 255 - u
        sign == uVal \div 128
        exponent == (uVal \div 16) % 8
        mantissa == uVal % 16
        sample == ((mantissa * 8) + 132) * Pow2(exponent) - 132
    IN IF sign = 1 THEN 0 - sample ELSE sample

\* Storing a number in an Int16Array element: wrap to 16 bits, two's complement.
ToInt16(x) == LET m == x % 65536 IN IF m >= 32768 THEN m - 65536 ELSE m

\* The two bytes of a 16-bit sample, little endian.
Int16LEBytes(x) == LET m == x % 65536 IN <<m % 256, m \div 256>>

\* Buffer.readInt16LE at byte offset off (0-based).
readInt16LE(buf, off) == ToInt16(buf[off + 1] + 256 * buf[off + 2])

RECURSIVE decodeMulawToPcm16(_)
\* decodeMulawToPcm16: a buffer of mu-law bytes to PCM16 bytes.
decodeMulawToPcm16(mulawBuf) ==
    IF mulawBuf = <<>> THEN <<>>
    ELSE Int16LEBytes(ToInt16(mulawToLinearSample(Head(mulawBuf))))
            \o decodeMulawToPcm16(Tail(mulawBuf))

\* Mutant of Upsample: every sample is written once.
RECURSIVE Upsample_NoRepeat(_, _)
Upsample_NoRepeat(pcm8k, i) ==
    IF i >= Len(pcm8k) \div 2 THEN <<>>
    ELSE LET sample == readInt16LE(pcm8k, i * 2)
         IN Int16LEBytes(sample) \o Upsample_NoRepeat(pcm8k, i + 1)

RECURSIVE Upsample(_, _)
Upsample(pcm8k, i) ==
    IF i >= Len(pcm8k) \div 2 THEN <<>>
    ELSE LET sample == readInt16LE(pcm8k, i * 2)
         IN Int16LEBytes(sample) \o Int16LEBytes(sample) \o Upsample(pcm8k, i + 1)

\* upsample8kTo16k: every 16-bit sample written twice.
upsample8kTo16k(pcm8k) == Upsample(pcm8k, 0)

RECURSIVE SumAbs(_, _)
SumAbs(pcm8k, i) ==
    IF i >= Len(pcm8k) \div 2 THEN 0
    ELSE LET sample == readInt16LE(pcm8k, i * 2)
         IN (IF sample < 0 THEN 0 - sample ELSE sample) + SumAbs(pcm8k, i + 1)

\* Mutant of IsLoud: a mean equal to the threshold counts as speech.
IsLoud_AtThreshold(pcm8k) ==
    LET sampleCount == Len(pcm8k) \div 2
    IN sampleCount > 0 /\ SumAbs(pcm8k, 0) >= ENERGY_THRESHOLD * sampleCount

\* avgAbs > ENERGY_THRESHOLD, with avgAbs = sumAbs / sampleCount (0 when the
\* frame holds no sample); the division is exact in the comparison.
IsLoud(pcm8k) ==
    LET sampleCount == Len(pcm8k) \div 2
    IN sampleCount > 0 /\ SumAbs(pcm8k, 0) > ENERGY_THRESHOLD * sampleCount

(* ------------------------------- base64 ------------------------------- *)

\* A base64 text is a sequence of sextets 0..63, with Pad for "=".
Pad == 64

RECURSIVE Base64Encode(_)
\* Buffer.toString("base64")
Base64Encode(bytes) ==
    IF bytes = <<>> THEN <<>>
    ELSE IF Len(bytes) = 1 THEN
        <<bytes[1] \div 4, (bytes[1] % 4) * 16, Pad, Pad>>
    ELSE IF Len(bytes) = 2 THEN
        <<bytes[1] \div 4, (bytes[1] % 4) * 16 + bytes[2] \div 16,
          (bytes[2] % 16) * 4, Pad>>
    ELSE
        <<bytes[1] \div 4, (bytes[1] % 4) * 16 + bytes[2] \div 16,
          (bytes[2] % 16) * 4 + bytes[3] \div 64, bytes[3] % 64>>
            \o Base64Encode(SubSeq(bytes, 4, Len(bytes)))

RECURSIVE Base64Decode(_)
\* Buffer.from(text, "base64"): decoding stops at the first "="; a trailing
\* group of 2 or 3 sextets yields 1 or 2 bytes, a single sextet none.
Base64Decode(text) ==
    IF text = <<>> \/ text[1] = Pad THEN <<>>
    ELSE IF Len(text) = 1 \/ text[2] = Pad THEN <<>>
    ELSE IF Len(text) = 2 \/ text[3] = Pad THEN
        <<text[1] * 4 + text[2] \div 16>>
    ELSE IF Len(text) = 3 \/ text[4] = Pad THEN
        <<text[1] * 4 + text[2] \div 16, (text[2] % 16) * 16 + text[3] \div 4>>
    ELSE
        <<text[1] * 4 + text[2] \div 16, (text[2] % 16) * 16 + text[3] \div 4,
          (text[3] % 4) * 64 + text[4]>>
            \o Base64Decode(SubSeq(text, 5, Len(text)))

(* ---------------------------- environment ------------------------------ *)

\* A value a JavaScript condition treats as false: undefined/null or "".
Falsy(x) == x = Null \/ x = ""

\* The optional texts of realtime events: undefined, or a character sequence.
UndefText == <<"undefined">>
FalsyText(t) == t = UndefText \/ t = <<>>

\* A null text (the summary when there is none).
NullText == <<"null">>

\* The optional base64 payloads of media frames and audio deltas.
UndefB64 == <<-1>>
FalsyB64(p) == p = UndefB64 \/ p = <<>>

\* Telephony `start` frames (data.start and its customParameters).
StartFrames ==
    { [streamSid |-> "MZ1", callSid |-> "CA1", direction |-> "OUTBOUND",
       call_type |-> "FIRST", last_summary |-> Null, last_transcript |-> Null],
      [streamSid |-> "MZ1", callSid |-> "CA1", direction |-> "INBOUND",
       call_type |-> "FOLLOWUP", last_summary |-> "prior notes",
       last_transcript |-> "prior excerpt"],
      [streamSid |-> "MZ2", callSid |-> Null, direction |-> Null,
       call_type |-> "", last_summary |-> Null, last_transcript |-> Null],
      [streamSid |-> "", callSid |-> "", direction |-> "inbound",
       call_type |-> "OTHER", last_summary |-> "", last_transcript |-> ""] }

\* Telephony `start` frames with every combination of present, absent, empty,
\* expected and unexpected custom parameters.
ParamFrames ==
    [streamSid : {"MZ1"}, callSid : {"CA1"},
     direction : {Null, "INBOUND", "OUTBOUND", "inbound"},
     call_type : {Null, "", "FIRST", "FOLLOWUP", "OTHER"},
     last_summary : {Null, "", "prior notes"},
     last_transcript : {Null, "", "prior excerpt"}]

\* mu-law payloads of telephony `media` frames, as base64 texts: none, "",
\* a text that decodes to no byte, one silent byte 0xFF, one loud byte 0x00,
\* the two bytes 0xFF 0x00, and three bytes whose samples 1500, 0, 0 have a
\* mean of exactly ENERGY_THRESHOLD.
EmptyB64 == <<0>>
QuietB64 == Base64Encode(<<255>>)
LoudB64 == Base64Encode(<<0>>)
ThresholdB64 == Base64Encode(<<198, 255, 255>>)
MediaPayloads ==
    { UndefB64, <<>>, EmptyB64, QuietB64, LoudB64, Base64Encode(<<255, 0>>),
      ThresholdB64 }

\* base64 deltas of realtime `response.audio.delta` events.
AudioDeltas == { UndefB64, <<>>, Base64Encode(<<255>>), Base64Encode(<<127>>) }

\* Texts of `response.output_text.delta` events.
TextDeltas == { UndefText, <<>>, <<" ">>, <<"Q">>, <<"Z", " ">> }

RECURSIVE Repeat(_, _)
Repeat(c, n) == IF n = 0 THEN <<>> ELSE <<c>> \o Repeat(c, n - 1)

\* Texts of caller transcription events; the long one makes a transcript of
\* exactly SUMMARY_MIN_LENGTH characters after trimming ("Caller: " + 32), the
\* short one a transcript one character shorter.
LongText == Repeat("x", SUMMARY_MIN_LENGTH - 8)
ShortText == Repeat("x", SUMMARY_MIN_LENGTH - 9)
CallerTexts ==
    { UndefText, <<>>, <<" ">>, <<" ", "h", "i", "\n">>, ShortText, LongText }

\* Outcomes of the summary request: the fetch throws, or it returns with
\* response.ok and the content of the first choice (undefined when absent).
SummaryOutcomes ==
    { [throws |-> TRUE, ok |-> FALSE, content |-> UndefText],
      [throws |-> FALSE, ok |-> FALSE, content |-> <<"e", "r", "r">>],
      [throws |-> FALSE, ok |-> TRUE, content |-> UndefText],
      [throws |-> FALSE, ok |-> TRUE, content |-> <<>>],
      [throws |-> FALSE, ok |-> TRUE, content |-> <<" ", "\n">>],
      [throws |-> FALSE, ok |-> TRUE, content |-> <<" ", "o", "k", "\n">>] }

\* process.env as read by the server at startup and by voiceBridgeCallLogger
\* at each post.
FullEnv ==
    [OPENAI_API_KEY |-> "sk",
     SUPABASE_URL |-> "https://sb", SUPABASE_ANON_KEY |-> "anon",
     ATLAS_VOICE_INTERNAL_SECRET |-> "s1", VOICE_SERVER_WEBHOOK_SECRET |-> Null]

\* The environments the process may be started in.
ProcessEnvs ==
    { FullEnv,
      [FullEnv EXCEPT !.OPENAI_API_KEY = Null],
      [FullEnv EXCEPT !.ATLAS_VOICE_INTERNAL_SECRET = Null,
                      !.VOICE_SERVER_WEBHOOK_SECRET = "s2"],
      [FullEnv EXCEPT !.ATLAS_VOICE_INTERNAL_SECRET = "",
                      !.VOICE_SERVER_WEBHOOK_SECRET = "s2"],
      [FullEnv EXCEPT !.ATLAS_VOICE_INTERNAL_SECRET = Null],
      [FullEnv EXCEPT !.SUPABASE_URL = Null],
      [FullEnv EXCEPT !.SUPABASE_ANON_KEY = ""] }

\* The startup check of the server: process.exit(1) before the WebSocket
\* server is created.
startupExits(e) == Falsy(e.OPENAI_API_KEY)

\* The environments in which a telephony connection can be accepted.
Envs == { e \in ProcessEnvs : ~startupExits(e) }

\* How many events of each kind the environment delivers in one run.  A run
\* is one of a few kinds of call: one with a repeated `start`, one with a
\* repeated `stop`, one exercising the audio path and the clock, one the
\* transcript, one a series of audio deltas, one a single media frame, one
\* made of `start` frames only, one with a `start` that may follow the
\* `stop`, and short calls under each environment.
NoEvents ==
    [start |-> 0, stop |-> 0, media |-> 0, text |-> 0, tick |-> 0,
     audio |-> 0, vad |-> 0, misc |-> 0, fail |-> 0]
RestartRun ==
    [NoEvents EXCEPT !.start = MaxStarts, !.stop = 1, !.media = 1, !.fail = 1]
StopRun ==
    [NoEvents EXCEPT !.start = 1, !.stop = MaxStops, !.media = 1, !.text = 1,
                     !.audio = 1, !.fail = 1]
AudioRun ==
    [NoEvents EXCEPT !.start = 1, !.media = MaxMedia, !.tick = MaxTicks,
                     !.audio = 1, !.vad = 1]
TextRun ==
    [NoEvents EXCEPT !.start = 1, !.stop = 1, !.text = MaxText, !.misc = 1]
DeltaRun ==
    [NoEvents EXCEPT !.start = 1, !.audio = MaxAudio, !.vad = 1]
DecodeRun ==
    [NoEvents EXCEPT !.start = 1, !.media = 1]
ParamRun ==
    [NoEvents EXCEPT !.start = MaxStarts]
SnapshotRun ==
    [NoEvents EXCEPT !.start = MaxStarts, !.stop = 1, !.text = 1]
ConfigRun ==
    [NoEvents EXCEPT !.start = 1, !.stop = 1, !.text = 1, !.fail = 1]
Runs ==
    { [budget |-> b, env |-> FullEnv] :
        b \in {RestartRun, StopRun, AudioRun, TextRun, DeltaRun, DecodeRun,
                ParamRun, SnapshotRun} }
        \cup { [budget |-> ConfigRun, env |-> e] : e \in Envs }

(* ------------------------------- state -------------------------------- *)

VARIABLES
    \* TwilioStreamContext
    correlationId, streamSid, callSid, openaiWs, openaiReady,
    transcript, assistantBuffer, humanSpeaking, lastHumanSpeechAt,
    direction, callType, lastSummary, lastTranscript,
    \* the sockets: twilioWs.readyState, and every realtime WebSocket created
    twilioReadyState, links,
    \* suspended saveTranscriptAndSummary invocations
    pending,
    \* what the bridge has emitted: frames sent to telephony, summary requests,
    \* call-log posts, the numbers of "dropped outbound audio" and of
    \* "twilio_stop_event" log entries, and the sockets it has closed
    twilioSent, summaryRequests, posts, droppedAudio, stopEvents, bridgeClosed,
    \* the "calllog_prepare_transcript" log entries
    preparedCalls,
    \* Date.now(), process.env, and the events still to come
    now, env, budget

ctxMeta ==
    <<correlationId, streamSid, callSid, direction, callType, lastSummary,
      lastTranscript>>
ctxLink == <<openaiWs, openaiReady>>
ctxText == <<transcript, assistantBuffer>>
ctxVad == <<humanSpeaking, lastHumanSpeechAt>>
sockets == <<twilioReadyState, links, bridgeClosed>>
emitted ==
    <<twilioSent, summaryRequests, posts, droppedAudio, stopEvents,
      preparedCalls>>
vars ==
    <<ctxMeta, ctxLink, ctxText, ctxVad, sockets, emitted, pending, now, env,
      budget>>

\* ctx.openaiWs = null
NoLink == 0
\* The telephony socket, as a member of bridgeClosed.
TwilioSocket == 0

\* wss.on("connection"): the context as constructed.
Init ==
    /\ correlationId = Null
    /\ streamSid = Null
    /\ callSid = Null
    /\ openaiWs = NoLink
    /\ openaiReady = FALSE
    /\ transcript = <<>>
    /\ assistantBuffer = <<>>
    /\ humanSpeaking = FALSE
    /\ lastHumanSpeechAt = NullTime
    /\ direction = "OUTBOUND"
    /\ callType = "FIRST"
    /\ lastSummary = Null
    /\ lastTranscript = Null
    /\ twilioReadyState = "OPEN"
    /\ links = <<>>
    /\ pending = <<>>
    /\ twilioSent = <<>>
    /\ summaryRequests = <<>>
    /\ posts = <<>>
    /\ droppedAudio = 0
    /\ stopEvents = 0
    /\ preparedCalls = <<>>
    /\ bridgeClosed = {}
    /\ now = 0
    /\ \E r \in Runs : budget = r.budget /\ env = r.env

Spend(kind) == budget' = [budget EXCEPT ![kind] = @ - 1]

\* A socket in state readyState is closed: the end of a close or an error
\* already under way, or (one of the run's failures) the peer closing an
\* open socket.
PeerCloses(readyState) ==
    IF readyState = "OPEN"
    THEN budget.fail > 0 /\ Spend("fail")
    ELSE UNCHANGED budget

\* A socket is CONNECTING, OPEN, CLOSING or CLOSED as ws reports it in
\* readyState; ERRORED stands for the CLOSING state ws is in once it has
\* emitted `error`, in which it delivers nothing more.
\*
\* The telephony socket still delivers frames: it is open, or the bridge has
\* called close() and the closing handshake has not finished.
TwilioDelivers == twilioReadyState \in {"OPEN", "CLOSING"}

\* Realtime link i still delivers events.
LinkDelivers(i) == links[i].readyState \in {"OPEN", "CLOSING"}

LinkIds == 1..Len(links)

(* ------------------------------ cleanup ------------------------------- *)

\* cleanup(ctx), run with the telephony socket in state tw.  inStop tells
\* that the caller is the `stop` handler; a link whose handle the stop handler
\* drops while it is still CONNECTING is marked abandoned.
cleanup(tw, inStop) ==
    LET closesLink == openaiWs # NoLink /\ links[openaiWs].readyState = "OPEN"
    IN /\ links' =
            IF openaiWs = NoLink THEN links
            ELSE [links EXCEPT ![openaiWs] =
                    [@ EXCEPT
                        !.readyState = IF closesLink THEN "CLOSING" ELSE @,
                        !.abandoned =
                            @ \/ (inStop /\ links[openaiWs].readyState = "CONNECTING")]]
       /\ openaiWs' = NoLink
       /\ openaiReady' = FALSE
       /\ twilioReadyState' = IF tw = "OPEN" THEN "CLOSING" ELSE tw
       /\ bridgeClosed' =
            bridgeClosed
                \cup (IF closesLink THEN {openaiWs} ELSE {})
                \cup (IF tw = "OPEN" THEN {TwilioSocket} ELSE {})

(* ------------------------- telephony handlers ------------------------- *)

\* Mutant of correlationIdFor: the stream id is preferred to the call id.
correlationIdFor_StreamFirst(frameCallSid, frameStreamSid) ==
    IF ~Falsy(frameStreamSid) THEN frameStreamSid
    ELSE IF ~Falsy(frameCallSid) THEN frameCallSid
    ELSE ConnectionId

\* ctx.correlationId = callSid || streamSid || ctx.connectionId
correlationIdFor(frameCallSid, frameStreamSid) ==
    IF ~Falsy(frameCallSid) THEN frameCallSid
    ELSE IF ~Falsy(frameStreamSid) THEN frameStreamSid
    ELSE ConnectionId

\* new WebSocket(url, ...): a realtime link as created.
NewLink == [readyState |-> "CONNECTING", sent |-> <<>>,
            sendsWhileConnecting |-> 0, abandoned |-> FALSE]

\* Mutant of TwilioStart: an empty last_summary is kept as it is.
TwilioStart_KeepsEmptySummary(f) ==
    /\ TwilioDelivers
    /\ budget.start > 0
    /\ Spend("start")
    /\ streamSid' = IF Falsy(f.streamSid) THEN Null ELSE f.streamSid
    /\ callSid' = IF Falsy(f.callSid) THEN Null ELSE f.callSid
    /\ direction' = IF f.direction = "INBOUND" THEN "INBOUND" ELSE "OUTBOUND"
    /\ callType' =
         LET rawCallType == IF Falsy(f.call_type) THEN "FIRST" ELSE f.call_type
         IN IF rawCallType = "FOLLOWUP" THEN "FOLLOWUP" ELSE "FIRST"
    /\ lastSummary' = f.last_summary
    /\ lastTranscript' =
         IF Falsy(f.last_transcript) THEN Null ELSE f.last_transcript
    /\ correlationId' = correlationIdFor(f.callSid, f.streamSid)
    /\ links' = Append(links, NewLink)
    /\ openaiWs' = Len(links) + 1
    /\ UNCHANGED <<openaiReady, ctxText, ctxVad, twilioReadyState, bridgeClosed,
                   emitted, pending, now, env>>

\* twilioWs.on("message") case "start": handleTwilioStart.
TwilioStart(f) ==
    /\ TwilioDelivers
    /\ budget.start > 0
    /\ Spend("start")
    /\ streamSid' = IF Falsy(f.streamSid) THEN Null ELSE f.streamSid
    /\ callSid' = IF Falsy(f.callSid) THEN Null ELSE f.callSid
    /\ direction' = IF f.direction = "INBOUND" THEN "INBOUND" ELSE "OUTBOUND"
    /\ callType' =
         LET rawCallType == IF Falsy(f.call_type) THEN "FIRST" ELSE f.call_type
         IN IF rawCallType = "FOLLOWUP" THEN "FOLLOWUP" ELSE "FIRST"
    /\ lastSummary' = IF Falsy(f.last_summary) THEN Null ELSE f.last_summary
    /\ lastTranscript' =
         IF Falsy(f.last_transcript) THEN Null ELSE f.last_transcript
    /\ correlationId' = correlationIdFor(f.callSid, f.streamSid)
    /\ links' = Append(links, NewLink)
    /\ openaiWs' = Len(links) + 1
    /\ UNCHANGED <<openaiReady, ctxText, ctxVad, twilioReadyState, bridgeClosed,
                   emitted, pending, now, env>>

\* Mutant of energyVad: no hangover, a frame at or below the threshold clears
\* the flag at once.
energyVad_NoHangover(pcm8k, speaking, lastAt, t) ==
    IF IsLoud(pcm8k) THEN <<TRUE, t>> ELSE <<FALSE, lastAt>>

\* The energy VAD of handleTwilioMedia: the new (humanSpeaking,
\* lastHumanSpeechAt) after a frame of 8 kHz PCM handled at time t.
energyVad(pcm8k, speaking, lastAt, t) ==
    IF IsLoud(pcm8k) THEN <<TRUE, t>>
    ELSE IF speaking /\ lastAt # NullTime /\ t - lastAt > HANGOVER_MS
         THEN <<FALSE, lastAt>>
         ELSE <<speaking, lastAt>>

\* ctx.openaiWs.send(data) on link i: ws throws while the socket is
\* CONNECTING, hands the message to an OPEN socket, and drops it otherwise.
sendOnLink(i, msg) ==
    links' =
        [links EXCEPT ![i] =
            IF @.readyState = "CONNECTING"
            THEN [@ EXCEPT !.sendsWhileConnecting = @ + 1]
            ELSE IF @.readyState = "OPEN"
            THEN [@ EXCEPT !.sent = Append(@, msg)]
            ELSE @]

\* twilioWs.on("message") case "media": handleTwilioMedia.
TwilioMedia(payloadBase64) ==
    /\ TwilioDelivers
    /\ budget.media > 0
    /\ Spend("media")
    /\ IF FalsyB64(payloadBase64) \/ openaiWs = NoLink \/ ~openaiReady
       THEN UNCHANGED <<ctxVad, links>>
       ELSE LET mulawBuf == Base64Decode(payloadBase64)
                pcm8k == decodeMulawToPcm16(mulawBuf)
                vad == energyVad(pcm8k, humanSpeaking, lastHumanSpeechAt, now)
                pcm16k == upsample8kTo16k(pcm8k)
            IN /\ humanSpeaking' = vad[1]
               /\ lastHumanSpeechAt' = vad[2]
               /\ sendOnLink(openaiWs,
                             [type |-> "input_audio_buffer.append",
                              audio |-> Base64Encode(pcm16k)])
    /\ UNCHANGED <<ctxMeta, ctxLink, ctxText, twilioReadyState, bridgeClosed,
                   emitted, pending, now, env>>

\* Mutant of TwilioIgnored: a frame that is not understood ends the session.
TwilioIgnored_Cleans(kind) ==
    /\ TwilioDelivers
    /\ budget.misc > 0
    /\ Spend("misc")
    /\ cleanup(twilioReadyState, FALSE)
    /\ UNCHANGED <<ctxMeta, ctxText, ctxVad, emitted, pending, now, env>>

\* twilioWs.on("message"): a `mark` frame, a frame with another event tag, or
\* a frame that is not JSON: logged only.
TwilioIgnored(kind) ==
    /\ TwilioDelivers
    /\ budget.misc > 0
    /\ Spend("misc")
    /\ UNCHANGED <<ctxMeta, ctxLink, ctxText, ctxVad, sockets, emitted, pending,
                   now, env>>

(* ------------------------------ finalizer ----------------------------- *)

\* getInternalSecret: ATLAS_VOICE_INTERNAL_SECRET ?? VOICE_SERVER_WEBHOOK_SECRET
\* ?? "" (?? passes over null and undefined only); "" makes it throw.
getInternalSecret ==
    IF env.ATLAS_VOICE_INTERNAL_SECRET # Null THEN env.ATLAS_VOICE_INTERNAL_SECRET
    ELSE IF env.VOICE_SERVER_WEBHOOK_SECRET # Null
         THEN env.VOICE_SERVER_WEBHOOK_SECRET
         ELSE ""

\* logCallToSupabase throws before its fetch: no callSid, or getSalesCallLogUrl,
\* getSupabaseAnonKey or getInternalSecret throws.
logCallThrows(payloadCallSid) ==
    \/ Falsy(payloadCallSid)
    \/ Falsy(env.SUPABASE_URL)
    \/ Falsy(env.SUPABASE_ANON_KEY)
    \/ Falsy(getInternalSecret)

\* The body and secret header logCallToSupabase posts.
callLogRecord(payloadCallSid, payloadDirection, trimmed, summary) ==
    [twilio_call_sid |-> payloadCallSid,
     direction |-> payloadDirection,
     transcript |-> trimmed,
     ai_summary |-> summary,
     status |-> "COMPLETED",
     secret |-> getInternalSecret]

\* The rest of saveTranscriptAndSummary once `summary` is known, for the
\* invocation holding `trimmed`: logCallToSupabase is called with the callSid
\* and direction the context holds now.  Either its fetch is issued and the
\* invocation suspends on it (rest is what remains of `pending`, to which the
\* suspended invocation is added), or it throws, the catch block logs, and
\* the stop handler goes on to cleanup.
postOrFail(trimmed, summary, rest) ==
    IF logCallThrows(callSid)
    THEN /\ pending' = rest
         /\ cleanup(twilioReadyState, TRUE)
         /\ UNCHANGED posts
    ELSE /\ posts' = Append(posts, callLogRecord(callSid, direction, trimmed, summary))
         /\ pending' = Append(rest, [pc |-> "post", trimmed |-> trimmed])
         /\ UNCHANGED <<ctxLink, sockets>>

\* twilioWs.on("message") case "stop": saveTranscriptAndSummary up to its
\* first suspension, and cleanup when it returns without suspending.
TwilioStop ==
    /\ TwilioDelivers
    /\ budget.stop > 0
    /\ Spend("stop")
    /\ stopEvents' = stopEvents + 1
    /\ LET trimmed == Trim(transcript)
       IN IF callSid = Null \/ trimmed = <<>>
          THEN /\ cleanup(twilioReadyState, TRUE)
               /\ UNCHANGED <<pending, summaryRequests, posts, preparedCalls>>
          ELSE /\ preparedCalls' =
                    Append(preparedCalls,
                           [call_sid |-> callSid, direction |-> direction,
                            transcript_length |-> Len(trimmed)])
               /\ IF Len(trimmed) >= SUMMARY_MIN_LENGTH
                  THEN /\ summaryRequests' = Append(summaryRequests, trimmed)
                       /\ pending' =
                            Append(pending,
                                   [pc |-> "summary", trimmed |-> trimmed])
                       /\ UNCHANGED <<posts, ctxLink, sockets>>
                  ELSE /\ postOrFail(trimmed, NullText, pending)
                       /\ UNCHANGED summaryRequests
    /\ UNCHANGED <<ctxMeta, ctxText, ctxVad, twilioSent, droppedAudio, now, env>>

RemoveAt(s, k) == SubSeq(s, 1, k - 1) \o SubSeq(s, k + 1, Len(s))

\* generateSummaryFromTranscript's result for an outcome of its fetch: null
\* on an exception, a non-2xx status, or content that is absent, empty or
\* blank; the trimmed content otherwise.
summaryFor(outcome) ==
    IF outcome.throws \/ ~outcome.ok THEN NullText
    ELSE IF FalsyText(outcome.content) \/ Trim(outcome.content) = <<>>
    THEN NullText
    ELSE Trim(outcome.content)

\* The summary fetch of suspended invocation k completes with an outcome;
\* saveTranscriptAndSummary goes on to logCallToSupabase with the summary.
SummaryReturned(k, outcome) ==
    /\ k \in 1..Len(pending)
    /\ pending[k].pc = "summary"
    /\ postOrFail(pending[k].trimmed, summaryFor(outcome), RemoveAt(pending, k))
    /\ UNCHANGED <<ctxMeta, ctxText, ctxVad, twilioSent, summaryRequests,
                   droppedAudio, stopEvents, preparedCalls, now, env, budget>>

\* The call-log fetch of suspended invocation k completes (any status, or an
\* exception: logged only); saveTranscriptAndSummary returns and the stop
\* handler runs cleanup.
PostReturned(k) ==
    /\ k \in 1..Len(pending)
    /\ pending[k].pc = "post"
    /\ pending' = RemoveAt(pending, k)
    /\ cleanup(twilioReadyState, TRUE)
    /\ UNCHANGED <<ctxMeta, ctxText, ctxVad, emitted, now, env, budget>>

\* twilioWs.on("close")
TwilioClose ==
    /\ twilioReadyState # "CLOSED"
    /\ PeerCloses(twilioReadyState)
    /\ cleanup("CLOSED", FALSE)
    /\ UNCHANGED <<ctxMeta, ctxText, ctxVad, emitted, pending, now, env>>

\* twilioWs.on("error"): ws has left the OPEN state when it emits the event.
TwilioError ==
    /\ twilioReadyState = "OPEN"
    /\ budget.fail > 0
    /\ Spend("fail")
    /\ cleanup("ERRORED", FALSE)
    /\ UNCHANGED <<ctxMeta, ctxText, ctxVad, emitted, pending, now, env>>

(* -------------------------- realtime handlers ------------------------- *)

\* followupContext and fullInstructions of the open handler: the base prompt
\* followed by the follow-up block with the two prior texts (or their
\* placeholders) inlined, or by the first-call note.
fullInstructions ==
    IF callType = "FOLLOWUP"
    THEN <<"BASE", "FOLLOWUP_CONTEXT",
           IF lastSummary # Null THEN lastSummary
           ELSE "(No prior AI summary was provided.)",
           IF lastTranscript # Null THEN lastTranscript
           ELSE "(No prior transcript snippet was provided.)">>
    ELSE <<"BASE", "NO_PREVIOUS_MEMORY">>

\* Mutant of initialDirective: the call type is not looked at.
initialDirective_IgnoresCallType ==
    IF direction = "INBOUND" THEN "inbound first" ELSE "outbound first"

\* inboundIntro / outboundIntro of the open handler.
initialDirective ==
    IF direction = "INBOUND"
    THEN (IF callType = "FOLLOWUP" THEN "inbound follow-up" ELSE "inbound first")
    ELSE (IF callType = "FOLLOWUP" THEN "outbound follow-up" ELSE "outbound first")

\* openaiWs.on("open") of link i.
LinkOpen(i) ==
    /\ i \in LinkIds
    /\ links[i].readyState = "CONNECTING"
    /\ openaiReady' = TRUE
    /\ links' =
         [links EXCEPT ![i] =
            [@ EXCEPT
                !.readyState = "OPEN",
                !.sent = @ \o <<[type |-> "session.update",
                                 instructions |-> fullInstructions],
                                [type |-> "response.create",
                                 instructions |-> initialDirective]>>]]
    /\ UNCHANGED <<ctxMeta, openaiWs, ctxText, ctxVad, twilioReadyState,
                   bridgeClosed, emitted, pending, now, env, budget>>

\* Mutant of RealtimeSpeechStarted: the timestamp is not stamped.
RealtimeSpeechStarted_NoStamp(i) ==
    /\ i \in LinkIds /\ LinkDelivers(i)
    /\ budget.vad > 0
    /\ Spend("vad")
    /\ humanSpeaking' = TRUE
    /\ UNCHANGED <<ctxMeta, ctxLink, ctxText, lastHumanSpeechAt, sockets, emitted,
                   pending, now, env>>

\* openaiWs.on("message") of link i, input_audio_buffer.speech_started.
RealtimeSpeechStarted(i) ==
    /\ i \in LinkIds /\ LinkDelivers(i)
    /\ budget.vad > 0
    /\ Spend("vad")
    /\ humanSpeaking' = TRUE
    /\ lastHumanSpeechAt' = now
    /\ UNCHANGED <<ctxMeta, ctxLink, ctxText, sockets, emitted, pending, now, env>>

\* Mutant of RealtimeSpeechStopped: the event clears the flag only once the
\* hangover of the local detection has passed.
RealtimeSpeechStopped_AfterHangover(i) ==
    /\ i \in LinkIds /\ LinkDelivers(i)
    /\ budget.vad > 0
    /\ Spend("vad")
    /\ humanSpeaking' =
         (humanSpeaking /\ now - lastHumanSpeechAt <= HANGOVER_MS)
    /\ UNCHANGED <<ctxMeta, ctxLink, ctxText, lastHumanSpeechAt, sockets, emitted,
                   pending, now, env>>

\* openaiWs.on("message") of link i, input_audio_buffer.speech_stopped.
RealtimeSpeechStopped(i) ==
    /\ i \in LinkIds /\ LinkDelivers(i)
    /\ budget.vad > 0
    /\ Spend("vad")
    /\ humanSpeaking' = FALSE
    /\ UNCHANGED <<ctxMeta, ctxLink, ctxText, lastHumanSpeechAt, sockets, emitted,
                   pending, now, env>>

\* Mutant of RealtimeAudioDelta: the frame is sent whether or not the session
\* holds a stream id.
RealtimeAudioDelta_NoStreamCheck(i, deltaBase64) ==
    /\ i \in LinkIds /\ LinkDelivers(i)
    /\ budget.audio > 0
    /\ Spend("audio")
    /\ IF FalsyB64(deltaBase64)
       THEN UNCHANGED <<twilioSent, droppedAudio>>
       ELSE IF humanSpeaking
       THEN /\ droppedAudio' = droppedAudio + 1
            /\ UNCHANGED twilioSent
       ELSE IF twilioReadyState = "OPEN"
       THEN /\ twilioSent' =
                Append(twilioSent,
                       [event |-> "media", streamSid |-> streamSid,
                        payload |-> deltaBase64])
            /\ UNCHANGED droppedAudio
       ELSE UNCHANGED <<twilioSent, droppedAudio>>
    /\ UNCHANGED <<ctxMeta, ctxLink, ctxText, ctxVad, sockets, summaryRequests,
                   posts, stopEvents, preparedCalls, pending, now, env>>

\* Mutant of RealtimeAudioDelta: the barge-in gate is missing.
RealtimeAudioDelta_NoGate(i, deltaBase64) ==
    /\ i \in LinkIds /\ LinkDelivers(i)
    /\ budget.audio > 0
    /\ Spend("audio")
    /\ IF FalsyB64(deltaBase64)
       THEN UNCHANGED twilioSent
       ELSE IF twilioReadyState = "OPEN" /\ streamSid # Null
       THEN twilioSent' =
                Append(twilioSent,
                       [event |-> "media", streamSid |-> streamSid,
                        payload |-> deltaBase64])
       ELSE UNCHANGED twilioSent
    /\ UNCHANGED <<ctxMeta, ctxLink, ctxText, ctxVad, sockets, summaryRequests,
                   posts, droppedAudio, stopEvents, preparedCalls, pending, now,
                   env>>

\* openaiWs.on("message") of link i, response.audio.delta.
RealtimeAudioDelta(i, deltaBase64) ==
    /\ i \in LinkIds /\ LinkDelivers(i)
    /\ budget.audio > 0
    /\ Spend("audio")
    /\ IF FalsyB64(deltaBase64)
       THEN UNCHANGED <<twilioSent, droppedAudio>>
       ELSE IF humanSpeaking
       THEN /\ droppedAudio' = droppedAudio + 1
            /\ UNCHANGED twilioSent
       ELSE IF twilioReadyState = "OPEN" /\ streamSid # Null
       THEN /\ twilioSent' =
                Append(twilioSent,
                       [event |-> "media", streamSid |-> streamSid,
                        payload |-> deltaBase64])
            /\ UNCHANGED droppedAudio
       ELSE UNCHANGED <<twilioSent, droppedAudio>>
    /\ UNCHANGED <<ctxMeta, ctxLink, ctxText, ctxVad, sockets, summaryRequests,
                   posts, stopEvents, preparedCalls, pending, now, env>>

\* Mutant of RealtimeTextDelta: the delta is put in front of the buffer.
RealtimeTextDelta_Prepends(i, delta) ==
    /\ i \in LinkIds /\ LinkDelivers(i)
    /\ budget.text > 0
    /\ Spend("text")
    /\ assistantBuffer' =
         IF FalsyText(delta) THEN assistantBuffer ELSE delta \o assistantBuffer
    /\ UNCHANGED <<ctxMeta, ctxLink, transcript, ctxVad, sockets, emitted,
                   pending, now, env>>

\* Mutant of RealtimeTextDelta: the delta is committed to the transcript at
\* once instead of being buffered.
RealtimeTextDelta_Commits(i, delta) ==
    /\ i \in LinkIds /\ LinkDelivers(i)
    /\ budget.text > 0
    /\ Spend("text")
    /\ transcript' =
         IF FalsyText(delta) \/ Len(Trim(delta)) = 0 THEN transcript
         ELSE transcript \o DipsySegment(delta)
    /\ UNCHANGED <<ctxMeta, ctxLink, assistantBuffer, ctxVad, sockets, emitted,
                   pending, now, env>>

\* openaiWs.on("message") of link i, response.output_text.delta.
RealtimeTextDelta(i, delta) ==
    /\ i \in LinkIds /\ LinkDelivers(i)
    /\ budget.text > 0
    /\ Spend("text")
    /\ assistantBuffer' =
         IF FalsyText(delta) THEN assistantBuffer ELSE assistantBuffer \o delta
    /\ UNCHANGED <<ctxMeta, ctxLink, transcript, ctxVad, sockets, emitted,
                   pending, now, env>>

\* Mutant of RealtimeResponseCompleted: the buffer is flushed whenever it is
\* not the empty string, blank or not.
RealtimeResponseCompleted_FlushesBlank(i) ==
    /\ i \in LinkIds /\ LinkDelivers(i)
    /\ budget.text > 0
    /\ Spend("text")
    /\ IF Len(assistantBuffer) > 0
       THEN /\ transcript' = transcript \o DipsySegment(assistantBuffer)
            /\ assistantBuffer' = <<>>
       ELSE UNCHANGED <<transcript, assistantBuffer>>
    /\ UNCHANGED <<ctxMeta, ctxLink, ctxVad, sockets, emitted, pending, now, env>>

\* openaiWs.on("message") of link i, response.completed.
RealtimeResponseCompleted(i) ==
    /\ i \in LinkIds /\ LinkDelivers(i)
    /\ budget.text > 0
    /\ Spend("text")
    /\ IF Len(Trim(assistantBuffer)) > 0
       THEN /\ transcript' = transcript \o DipsySegment(assistantBuffer)
            /\ assistantBuffer' = <<>>
       ELSE UNCHANGED <<transcript, assistantBuffer>>
    /\ UNCHANGED <<ctxMeta, ctxLink, ctxVad, sockets, emitted, pending, now, env>>

\* Mutant of RealtimeCallerTranscript: the caller line is put in front of the
\* transcript.
RealtimeCallerTranscript_Prepends(i, callerText) ==
    /\ i \in LinkIds /\ LinkDelivers(i)
    /\ budget.text > 0
    /\ Spend("text")
    /\ transcript' =
         IF ~FalsyText(callerText) /\ Len(Trim(callerText)) > 0
         THEN CallerSegment(callerText) \o transcript
         ELSE transcript
    /\ UNCHANGED <<ctxMeta, ctxLink, assistantBuffer, ctxVad, sockets, emitted,
                   pending, now, env>>

\* openaiWs.on("message") of link i,
\* conversation.item.input_audio_transcription.completed.
RealtimeCallerTranscript(i, callerText) ==
    /\ i \in LinkIds /\ LinkDelivers(i)
    /\ budget.text > 0
    /\ Spend("text")
    /\ transcript' =
         IF ~FalsyText(callerText) /\ Len(Trim(callerText)) > 0
         THEN transcript \o CallerSegment(callerText)
         ELSE transcript
    /\ UNCHANGED <<ctxMeta, ctxLink, assistantBuffer, ctxVad, sockets, emitted,
                   pending, now, env>>

\* Mutant of RealtimeIgnored: the event is taken for the failure of the
\* link and clears the ready flag.
RealtimeIgnored_ClearsReady(i, kind) ==
    /\ i \in LinkIds /\ LinkDelivers(i)
    /\ budget.misc > 0
    /\ Spend("misc")
    /\ openaiReady' = FALSE
    /\ UNCHANGED <<ctxMeta, openaiWs, ctxText, ctxVad, sockets, emitted, pending,
                   now, env>>

\* openaiWs.on("message") of link i: an `error` event, an event of another
\* type, or a message that is not JSON: logged at most.
RealtimeIgnored(i, kind) ==
    /\ i \in LinkIds /\ LinkDelivers(i)
    /\ budget.misc > 0
    /\ Spend("misc")
    /\ UNCHANGED <<ctxMeta, ctxLink, ctxText, ctxVad, sockets, emitted, pending,
                   now, env>>

\* openaiWs.on("error") of link i: ws has left CONNECTING / OPEN when it
\* emits the event.
LinkError(i) ==
    /\ i \in LinkIds
    /\ links[i].readyState \in {"CONNECTING", "OPEN"}
    /\ budget.fail > 0
    /\ Spend("fail")
    /\ links' = [links EXCEPT ![i] = [@ EXCEPT !.readyState = "ERRORED"]]
    /\ openaiReady' = FALSE
    /\ UNCHANGED <<ctxMeta, openaiWs, ctxText, ctxVad, twilioReadyState,
                   bridgeClosed, emitted, pending, now, env>>

\* Mutant of LinkClose: the handle is kept.
LinkClose_KeepsHandle(i) ==
    /\ i \in LinkIds
    /\ links[i].readyState \in {"OPEN", "CLOSING", "ERRORED"}
    /\ PeerCloses(links[i].readyState)
    /\ links' = [links EXCEPT ![i] = [@ EXCEPT !.readyState = "CLOSED"]]
    /\ openaiReady' = FALSE
    /\ UNCHANGED <<ctxMeta, openaiWs, ctxText, ctxVad, twilioReadyState,
                   bridgeClosed, emitted, pending, now, env>>

\* openaiWs.on("close") of link i: the peer closed it, or a close or an error
\* ran to its end.
LinkClose(i) ==
    /\ i \in LinkIds
    /\ links[i].readyState \in {"OPEN", "CLOSING", "ERRORED"}
    /\ PeerCloses(links[i].readyState)
    /\ links' = [links EXCEPT ![i] = [@ EXCEPT !.readyState = "CLOSED"]]
    /\ openaiReady' = FALSE
    /\ openaiWs' = NoLink
    /\ UNCHANGED <<ctxMeta, ctxText, ctxVad, twilioReadyState, bridgeClosed,
                   emitted, pending, now, env>>

\* Date.now() advances.
Tick ==
    /\ budget.tick > 0
    /\ Spend("tick")
    /\ now' = now + TickMs
    /\ UNCHANGED <<ctxMeta, ctxLink, ctxText, ctxVad, sockets, emitted, pending,
                   env>>

(* ---------------------------- specification --------------------------- *)

Next ==
    \/ \E f \in StartFrames : TwilioStart(f)
    \/ \E p \in MediaPayloads : TwilioMedia(p)
    \/ \E kind \in {"mark", "unknown", "not JSON"} : TwilioIgnored(kind)
    \/ TwilioStop
    \/ \E k \in 1..MaxStops, o \in SummaryOutcomes : SummaryReturned(k, o)
    \/ \E k \in 1..MaxStops : PostReturned(k)
    \/ TwilioClose
    \/ TwilioError
    \/ \E i \in 1..MaxStarts :
        \/ LinkOpen(i)
        \/ LinkError(i)
        \/ LinkClose(i)
        \/ RealtimeSpeechStarted(i)
        \/ RealtimeSpeechStopped(i)
        \/ \E d \in AudioDeltas : RealtimeAudioDelta(i, d)
        \/ \E d \in TextDeltas : RealtimeTextDelta(i, d)
        \/ RealtimeResponseCompleted(i)
        \/ \E t \in CallerTexts : RealtimeCallerTranscript(i, t)
        \/ \E kind \in {"error", "unknown", "not JSON"} : RealtimeIgnored(i, kind)
    \/ Tick

Spec == Init /\ [][Next]_vars

\* The decoder on every mu-law byte: a call that is started, whose link opens
\* and that is sent one media frame of one byte, any of the 256.
MulawBytes == 0..255
DecodeInit == Init /\ budget = DecodeRun
DecodeNext ==
    \/ \E f \in StartFrames : TwilioStart(f)
    \/ LinkOpen(1)
    \/ \E u \in MulawBytes : TwilioMedia(Base64Encode(<<u>>))
DecodeSpec == DecodeInit /\ [][DecodeNext]_vars

\* The start parameters in every combination: a call that is sent `start`
\* frames only, and whose links open.
ParamInit == Init /\ budget = ParamRun
ParamNext ==
    \/ \E f \in ParamFrames : TwilioStart(f)
    \/ \E i \in 1..MaxStarts : LinkOpen(i)
ParamSpec == ParamInit /\ [][ParamNext]_vars

(* ------------------------------- claims ------------------------------- *)

Last(s) == s[Len(s)]
Range(s) == { s[k] : k \in 1..Len(s) }
IsPrefix(a, b) == Len(a) <= Len(b) /\ SubSeq(b, 1, Len(a)) = a

\* The realtime links that are connecting or open.
LiveLinks == { i \in LinkIds : links[i].readyState \in {"CONNECTING", "OPEN"} }

\* C1 (as claimed): finalization runs at most once per session: at most one
\* summary request and at most one call-log post are ever issued.
C1_AtMostOneFinalization == Len(summaryRequests) <= 1 /\ Len(posts) <= 1

\* C2: nothing is sent to the telephony link in a step taken while
\* human_speaking is true; in particular an audio delta handled then is
\* dropped, whatever the gate let through before.
C2_BargeInGate ==
    [][ /\ (twilioSent' # twilioSent => ~humanSpeaking)
        /\ ((\E i \in 1..MaxStarts, d \in AudioDeltas : RealtimeAudioDelta(i, d))
                /\ humanSpeaking
            => twilioSent' = twilioSent) ]_vars

\* C2 witness: an audio delta has been dropped by the gate (human speaking,
\* stream id known, telephony socket open) and nothing was sent.
C2_Witness ==
    /\ droppedAudio > 0
    /\ humanSpeaking
    /\ streamSid # Null
    /\ twilioReadyState = "OPEN"
    /\ twilioSent = <<>>

\* C3 (as claimed): when the close or error event of the telephony socket is
\* handled with no `stop` handled before, a call id and a non-empty trimmed
\* transcript, the handler leaves a finalization started (a post issued or
\* an invocation in flight) and no realtime link connecting or open.
C3_CloseFinalizes ==
    [][ (/\ TwilioClose \/ TwilioError
         /\ stopEvents = 0
         /\ callSid # Null
         /\ Trim(transcript) # <<>>)
        => /\ (posts' # <<>> \/ pending' # <<>>)
           /\ LiveLinks' = {} ]_vars

\* C4 (as claimed): whenever a call-log post is issued, the bridge has closed
\* no socket of the session yet, and a transcript long enough for a summary
\* has had its summary request issued before.
C4_PostBeforeClose ==
    [][ Len(posts') > Len(posts)
        => /\ bridgeClosed = {}
           /\ (Len(Last(posts').transcript) >= SUMMARY_MIN_LENGTH
                => Last(posts').transcript \in Range(summaryRequests)) ]_vars

\* C5 (as claimed): a realtime link that was still connecting when the stop
\* handler cleaned up never opens, and no session.update or response.create
\* is sent on it.
C5_StopBeforeOpenClosesLink ==
    \A i \in LinkIds :
        links[i].abandoned
        => links[i].readyState # "OPEN" /\ links[i].sent = <<>>

\* The messages sent on a link are session.update, response.create, and then
\* only input_audio_buffer.append.
SentInOrder(sent) ==
    \/ sent = <<>>
    \/ /\ Len(sent) >= 2
       /\ sent[1].type = "session.update"
       /\ sent[2].type = "response.create"
       /\ \A k \in 3..Len(sent) : sent[k].type = "input_audio_buffer.append"

\* C6 (as claimed): on every realtime link session.update precedes
\* response.create, each is sent once, and no input_audio_buffer.append is
\* sent or attempted on the link before both.
C6_ConfigBeforeAudio ==
    \A i \in LinkIds :
        SentInOrder(links[i].sent) /\ links[i].sendsWhileConnecting = 0

\* C7 (as claimed): at most one realtime link of the session is connecting
\* or open, and none is once the telephony socket has closed (cleanup has
\* run).
C7_OneLinkWithinSession ==
    /\ Cardinality(LiveLinks) <= 1
    /\ (twilioReadyState = "CLOSED" => LiveLinks = {})

\* The first non-empty of {call_id, stream_id, connection_id} as the session
\* holds them.
FirstNonEmptyId ==
    IF callSid # Null THEN callSid
    ELSE IF streamSid # Null THEN streamSid
    ELSE ConnectionId

C9_SpeakingHasTimestamp == humanSpeaking => lastHumanSpeechAt # NullTime

\* C9 witness: speech was detected after the clock had advanced.
C9_Witness == humanSpeaking /\ now > 0 /\ lastHumanSpeechAt = now

\* The characters of s that only agent text deltas carry.
AgentChars(s) == SelectSeq(s, LAMBDA c : c \in {"Q", "Z"})

\* C10: a text delta changes neither the transcript nor what has been
\* requested or posted; agent text appears in the transcript only in a step
\* handling response.completed; and a call-log post carries (trimmed) what
\* the transcript held, never the buffer.
C10_CommitOnlyOnCompleted ==
    [][ /\ ((\E i \in 1..MaxStarts, d \in TextDeltas : RealtimeTextDelta(i, d))
            => /\ transcript' = transcript
               /\ posts' = posts
               /\ summaryRequests' = summaryRequests)
        /\ (AgentChars(transcript') # AgentChars(transcript)
            => \E i \in 1..MaxStarts : RealtimeResponseCompleted(i))
        /\ (Len(posts') > Len(posts)
            => IsPrefix(Last(posts').transcript, Trim(transcript))) ]_vars

\* C10 witness: the call was stopped and its record posted while agent text
\* was still waiting in the buffer for its response.completed; neither the
\* transcript nor the record holds it.
C10_Witness ==
    /\ AgentChars(assistantBuffer) # <<>>
    /\ posts # <<>>
    /\ AgentChars(transcript) = <<>>
    /\ AgentChars(posts[1].transcript) = <<>>

\* The lines of s: the pieces between its line feeds.
SplitLines(s) ==
    LET breaks == {0} \cup {k \in 1..Len(s) : s[k] = "\n"} \cup {Len(s) + 1}
        next(a) == CHOOSE b \in breaks : b > a /\ \A c \in breaks : c > a => b <= c
    IN { SubSeq(s, a + 1, next(a) - 1) : a \in breaks \ {Len(s) + 1} }

\* A transcript line is a segment with text: a speaker label followed by
\* text that is not blank.
IsSegmentLine(line) ==
    \E label \in {Tail(CallerPrefix), Tail(DipsyPrefix)} :
        /\ IsPrefix(label, line)
        /\ Trim(SubSeq(line, Len(label) + 1, Len(line))) # <<>>

\* C11: the transcript holds no Agent segment and no Caller segment whose
\* text is empty after trimming: each of its non-empty lines is a speaker
\* label followed by text that is not blank.
C11_NoEmptySegment ==
    \A line \in SplitLines(transcript) : line # <<>> => IsSegmentLine(line)

\* C11 witness: all the text events of the call have been handled, a blank
\* agent delta among them, and the transcript holds exactly the one caller
\* segment, trimmed; the blank buffer was committed by no completion.
C11_Witness ==
    /\ budget = [TextRun EXCEPT !.start = 0, !.text = 0]
    /\ assistantBuffer = <<" ">>
    /\ transcript = CallerPrefix \o <<"h", "i", "\n">>

\* C12 (as claimed): a `stop` handled while the session has no call id, or
\* while its trimmed transcript is empty, issues no summary request and no
\* call-log post, suspends on nothing, and leaves the sockets closed: the
\* telephony socket no longer open and no realtime link connecting or open.
C12_SkipClosesSockets ==
    [][ (TwilioStop /\ (callSid = Null \/ Trim(transcript) = <<>>))
        => /\ summaryRequests' = summaryRequests
           /\ posts' = posts
           /\ pending' = pending
           /\ twilioReadyState' # "OPEN"
           /\ LiveLinks' = {} ]_vars

\* The call-log sink is configured: logCallToSupabase finds its URL, its
\* anon key and a shared secret.
SinkConfigured ==
    /\ ~Falsy(env.SUPABASE_URL)
    /\ ~Falsy(env.SUPABASE_ANON_KEY)
    /\ ~Falsy(getInternalSecret)

\* C13 (as claimed): summary requests are issued by `stop` steps only, and a
\* `stop` handled with a call id and a non-empty trimmed transcript issues one
\* (for that transcript) if and only if the trimmed transcript has at least
\* 40 characters; when it is shorter no request is made and the call-log post
\* is issued with ai_summary = null and the trimmed transcript.
C13_SummaryThreshold ==
    [][ /\ (summaryRequests' # summaryRequests => TwilioStop)
        /\ (TwilioStop /\ callSid # Null /\ Trim(transcript) # <<>>
            => LET trimmed == Trim(transcript)
               IN IF Len(trimmed) >= SUMMARY_MIN_LENGTH
                  THEN /\ summaryRequests' = Append(summaryRequests, trimmed)
                       /\ posts' = posts
                  ELSE /\ summaryRequests' = summaryRequests
                       /\ Len(posts') = Len(posts) + 1
                       /\ Last(posts').ai_summary = NullText
                       /\ Last(posts').transcript = trimmed
                       /\ Last(posts').twilio_call_sid = callSid) ]_vars

\* The failures of the summary request: a transport error, a non-2xx status,
\* content that is absent, empty or all whitespace.
SummaryFailures ==
    { o \in SummaryOutcomes :
        \/ o.throws
        \/ ~o.ok
        \/ FalsyText(o.content)
        \/ \A c \in Range(o.content) : IsWhitespace(c) }

\* C14 (as claimed): when the summary request of a finalization fails, the
\* summary is null and the finalization goes on: the call-log post is issued
\* in the same step, with ai_summary = null and the transcript as it was
\* trimmed at the `stop` (the one the summary was requested for), and the
\* invocation waits for that post.
C14_SummaryFailureStillPosts ==
    [][ \A k \in 1..MaxStops, o \in SummaryFailures :
          SummaryReturned(k, o)
          => /\ summaryFor(o) = NullText
             /\ Len(posts') = Len(posts) + 1
             /\ Last(posts').ai_summary = NullText
             /\ Last(posts').transcript = pending[k].trimmed
             /\ pending[k].trimmed \in Range(summaryRequests)
             /\ Len(pending') = Len(pending)
             /\ Last(pending') = [pc |-> "post",
                                  trimmed |-> pending[k].trimmed] ]_vars

\* A step in which an invocation of the stop handler runs to its end: a
\* `stop` handled without suspending, or a suspended invocation leaving.
StopHandlerEnds ==
    \/ TwilioStop /\ pending' = pending
    \/ Len(pending') < Len(pending)

\* C15 (as claimed): whenever the stop handler runs to its end (finalizer
\* skipped, failed or succeeded) it has cleaned up: the telephony socket is no
\* longer open and no realtime link of the session is connecting or open.
C15_StopLeadsToCleanup ==
    [][ StopHandlerEnds
        => twilioReadyState' # "OPEN" /\ LiveLinks' = {} ]_vars

\* What a realtime close or error event leaves alone: no finalization is
\* started or advanced, no socket is closed by the bridge, and transcript,
\* agent buffer and VAD state stay as they are.
LinkEventFrame ==
    /\ UNCHANGED <<summaryRequests, posts, pending, stopEvents>>
    /\ UNCHANGED <<twilioReadyState, bridgeClosed>>
    /\ UNCHANGED <<transcript, assistantBuffer, humanSpeaking, lastHumanSpeechAt>>

\* C16 (as claimed): a close event and an error event of an open realtime
\* link, handled while the session is active (telephony socket open, no
\* `stop` handled), each clear the ready flag and null the handle, and leave
\* the rest alone.
C16_CloseOrErrorNullsHandle ==
    [][ \A i \in 1..MaxStarts :
          ((LinkClose(i) \/ LinkError(i))
             /\ links[i].readyState = "OPEN"
             /\ twilioReadyState = "OPEN"
             /\ stopEvents = 0)
          => ~openaiReady' /\ openaiWs' = NoLink /\ LinkEventFrame ]_vars

\* C16 (amended): a close event of a realtime link clears the ready flag and
\* nulls the handle; an error event clears the ready flag and leaves the
\* handle as it is; both leave the rest alone, in every state of the session.
C16_CloseNullsErrorKeepsHandle ==
    [][ \A i \in 1..MaxStarts :
          /\ (LinkClose(i)
                => ~openaiReady' /\ openaiWs' = NoLink /\ LinkEventFrame)
          /\ (LinkError(i)
                => ~openaiReady' /\ openaiWs' = openaiWs /\ LinkEventFrame) ]_vars

\* C16 witness: the open realtime link of an active session that has a
\* transcript has emitted `error`: the ready flag is cleared, the handle is
\* still set.
C16_Witness ==
    /\ twilioReadyState = "OPEN" /\ stopEvents = 0
    /\ transcript # <<>>
    /\ openaiWs # NoLink
    /\ links[openaiWs].readyState = "ERRORED"
    /\ links[openaiWs].sent # <<>>
    /\ ~openaiReady

\* The realtime link the session opened last has closed.
LinkLost == links # <<>> /\ Last(links).readyState = "CLOSED"

\* C17 (as claimed): once the realtime link has closed, the session goes on:
\* the close leaves the telephony socket and the transcript as they are; a
\* `media` frame handled then is dropped (nothing is sent on any link, the
\* VAD state stays); and a `stop` handled then, with a call id and a
\* non-empty trimmed transcript, runs the finalizer on the transcript as it
\* stands: the summary request for it is issued or, for a short transcript,
\* the call-log post carrying it.
C17_LinkLossKeepsSession ==
    [][ /\ (\A i \in 1..MaxStarts :
               LinkClose(i)
               => UNCHANGED <<twilioReadyState, transcript, callSid, pending>>)
        /\ (\A p \in MediaPayloads :
               TwilioMedia(p) /\ LinkLost
               => UNCHANGED <<links, humanSpeaking, lastHumanSpeechAt>>)
        /\ (TwilioStop /\ LinkLost /\ callSid # Null /\ Trim(transcript) # <<>>
            => IF Len(Trim(transcript)) >= SUMMARY_MIN_LENGTH
               THEN /\ summaryRequests' = Append(summaryRequests, Trim(transcript))
                    /\ Len(pending') = Len(pending) + 1
               ELSE /\ Len(posts') = Len(posts) + 1
                    /\ Last(posts').transcript = Trim(transcript)
                    /\ Last(posts').twilio_call_sid = callSid) ]_vars

\* The realtime link is not ready: the session holds none (before any
\* `start`, or after it closed), or the one it holds is not open (still
\* connecting, or closing).
LinkNotReady == openaiWs = NoLink \/ links[openaiWs].readyState # "OPEN"

\* C18 (as claimed): a `media` frame handled while the realtime link is not
\* ready is ignored: no send is made or attempted on any link and no session
\* state changes, human_speaking and last_human_speech_at included.
C18_MediaIgnoredUntilReady ==
    [][ \A p \in MediaPayloads :
          TwilioMedia(p) /\ LinkNotReady
          => UNCHANGED <<links, humanSpeaking, lastHumanSpeechAt, ctxMeta,
                         ctxLink, ctxText, twilioReadyState, bridgeClosed,
                         emitted, pending>> ]_vars

\* The 8 kHz PCM of a media payload, and what handleTwilioMedia forwards for
\* it.
PcmOf(payloadBase64) == decodeMulawToPcm16(Base64Decode(payloadBase64))
AppendFor(payloadBase64) ==
    [type |-> "input_audio_buffer.append",
     audio |-> Base64Encode(upsample8kTo16k(PcmOf(payloadBase64)))]

\* The media payloads whose mean absolute sample value exceeds the threshold.
LoudPayloads ==
    { p \in MediaPayloads : ~FalsyB64(p) /\ IsLoud(PcmOf(p)) }

\* A media frame over the threshold has been processed and forwarded.
LoudFrameForwarded ==
    \E i \in LinkIds, p \in LoudPayloads :
        \E k \in 1..Len(links[i].sent) :
            /\ links[i].sent[k].type = "input_audio_buffer.append"
            /\ links[i].sent[k] = AppendFor(p)

\* A media frame with payload p gets past the guards of handleTwilioMedia.
MediaProcessed(p) == ~FalsyB64(p) /\ openaiWs # NoLink /\ openaiReady

\* C19 (as claimed): an audio delta handled within 600 ms of a processed
\* media frame over the threshold is not sent to telephony, whatever was
\* handled in between.  The clock starts at 0, so while now <= 600 every
\* frame processed so far is at most 600 ms old.
C19_HoldWhateverHappens ==
    [][ \A i \in 1..MaxStarts, d \in AudioDeltas :
          (RealtimeAudioDelta(i, d) /\ ~FalsyB64(d)
             /\ LoudFrameForwarded /\ now <= HANGOVER_MS)
          => twilioSent' = twilioSent ]_vars

\* C19 (amended): a processed media frame over the threshold sets
\* human_speaking and stamps last_human_speech_at = now; the timestamp only
\* ever moves to now; human_speaking is cleared only by a realtime
\* speech_stopped event or by a media frame handled more than 600 ms after
\* the timestamp; and while human_speaking is set every audio delta is
\* dropped and counted.  So the deltas of the 600 ms after the frame are
\* dropped unless a speech_stopped event is handled in between.
C19_HoldUntilSpeechStopped ==
    [][ /\ (\A p \in LoudPayloads :
               TwilioMedia(p) /\ MediaProcessed(p)
               => humanSpeaking' /\ lastHumanSpeechAt' = now)
        /\ (lastHumanSpeechAt' # lastHumanSpeechAt => lastHumanSpeechAt' = now)
        /\ (humanSpeaking /\ ~humanSpeaking'
            => \/ \E i \in 1..MaxStarts : RealtimeSpeechStopped(i)
               \/ /\ \E p \in MediaPayloads : TwilioMedia(p)
                  /\ now - lastHumanSpeechAt > HANGOVER_MS)
        /\ (\A i \in 1..MaxStarts, d \in AudioDeltas :
               RealtimeAudioDelta(i, d) /\ ~FalsyB64(d) /\ humanSpeaking
               => /\ twilioSent' = twilioSent
                  /\ droppedAudio' = droppedAudio + 1) ]_vars

\* C19 witness: with no realtime VAD event handled, a frame over the
\* threshold and then a quiet frame were forwarded, the clock is exactly
\* 600 ms past the speech timestamp, human_speaking still holds and the
\* audio delta handled was dropped, not sent.
C19_Witness ==
    /\ budget.vad = AudioRun.vad /\ budget.media = 0
    /\ Len(links) = 1 /\ Len(links[1].sent) = 4
    /\ links[1].sent[3] = AppendFor(LoudB64)
    /\ links[1].sent[4] = AppendFor(QuietB64)
    /\ humanSpeaking
    /\ now - lastHumanSpeechAt = HANGOVER_MS
    /\ droppedAudio = 1
    /\ twilioSent = <<>>

\* C20: every step leaves the transcript as it is or appends exactly one
\* segment at its end: the Caller segment of the transcription event being
\* handled, or the Agent segment of the buffer at the response.completed
\* being handled.  So the old transcript is always a prefix of the new one and
\* the segments stand in the order their events were handled.
C20_AppendOnly ==
    [][ \/ transcript' = transcript
        \/ \E t \in CallerTexts :
              /\ ~FalsyText(t) /\ Trim(t) # <<>>
              /\ \E i \in 1..MaxStarts : RealtimeCallerTranscript(i, t)
              /\ transcript' = transcript \o CallerSegment(t)
        \/ /\ Trim(assistantBuffer) # <<>>
           /\ \E i \in 1..MaxStarts : RealtimeResponseCompleted(i)
           /\ transcript' = transcript \o DipsySegment(assistantBuffer) ]_vars

\* C20 witness: a caller transcription was handled before the
\* response.completed of the agent's text: the Caller segment stands first
\* and the Agent segment after it.
C20_Witness ==
    transcript = CallerSegment(<<" ", "h", "i", "\n">>) \o DipsySegment(<<"Q">>)

\* C21 (as claimed): a session, here one whose `start` frame has been
\* handled, exists only in a process whose API key, call-log sink URL and
\* shared secret are all configured.
C21_SessionHasConfiguration ==
    links # <<>>
    => /\ ~Falsy(env.OPENAI_API_KEY)
       /\ ~Falsy(env.SUPABASE_URL)
       /\ ~Falsy(getInternalSecret)

\* The sum of the absolute sample values of a buffer of mu-law bytes.
RECURSIVE SumAbsSamples(_)
SumAbsSamples(mulawBuf) ==
    IF mulawBuf = <<>> THEN 0
    ELSE LET sample == mulawToLinearSample(Head(mulawBuf))
         IN (IF sample < 0 THEN 0 - sample ELSE sample)
                + SumAbsSamples(Tail(mulawBuf))

\* The mean absolute sample value of the frame with payload p is over the
\* threshold; a frame without samples has mean 0.
MeanOverThreshold(p) ==
    LET mulawBuf == Base64Decode(p)
    IN /\ Len(mulawBuf) > 0
       /\ SumAbsSamples(mulawBuf) > ENERGY_THRESHOLD * Len(mulawBuf)

\* C23: the local energy VAD step of every media frame that gets past the
\* guards: a mean absolute sample value over 500 sets human_speaking and
\* stamps last_human_speech_at = now; otherwise, when human_speaking holds
\* and now - last_human_speech_at > 600, human_speaking is cleared and the
\* timestamp kept; in every other case both are unchanged.  Both bounds are
\* exclusive (a mean of exactly 500 is not speech, a gap of exactly 600 ms
\* does not clear) and a frame without samples has mean 0.
C23_EnergyVadStep ==
    [][ \A p \in MediaPayloads :
          TwilioMedia(p) /\ MediaProcessed(p)
          => IF MeanOverThreshold(p)
             THEN humanSpeaking' /\ lastHumanSpeechAt' = now
             ELSE IF humanSpeaking /\ now - lastHumanSpeechAt > HANGOVER_MS
             THEN ~humanSpeaking' /\ lastHumanSpeechAt' = lastHumanSpeechAt
             ELSE UNCHANGED <<humanSpeaking, lastHumanSpeechAt>> ]_vars

\* C23 witness: with no realtime VAD event handled, a frame over the
\* threshold and then the frame whose mean is exactly 500 were forwarded, the
\* second one exactly 600 ms after the first, and human_speaking still holds
\* with the timestamp of the first.
C23_Witness ==
    /\ SumAbsSamples(Base64Decode(ThresholdB64)) = ENERGY_THRESHOLD * 3
    /\ budget.vad = AudioRun.vad /\ budget.media = 0
    /\ Len(links) = 1 /\ Len(links[1].sent) = 4
    /\ links[1].sent[3] = AppendFor(LoudB64)
    /\ links[1].sent[4] = AppendFor(ThresholdB64)
    /\ humanSpeaking
    /\ lastHumanSpeechAt = 0 /\ now = HANGOVER_MS

\* C24: a realtime speech_started event sets human_speaking and stamps
\* last_human_speech_at = now; a speech_stopped event clears human_speaking
\* whatever the state (also less than 600 ms after the local detection
\* marked speech) and leaves last_human_speech_at as it is.
C24_PeerVadEvents ==
    [][ \A i \in 1..MaxStarts :
          /\ (RealtimeSpeechStarted(i)
               => humanSpeaking' /\ lastHumanSpeechAt' = now)
          /\ (RealtimeSpeechStopped(i)
               => /\ ~humanSpeaking'
                  /\ lastHumanSpeechAt' = lastHumanSpeechAt) ]_vars

\* C24 witness: a frame over the threshold was forwarded and marked speech,
\* and a speech_stopped event handled less than 600 ms after it has cleared
\* human_speaking and kept the timestamp.
C24_Witness ==
    /\ budget.vad = 0 /\ budget.media = AudioRun.media - 1
    /\ Len(links) = 1 /\ Len(links[1].sent) = 3
    /\ links[1].sent[3] = AppendFor(LoudB64)
    /\ ~humanSpeaking
    /\ lastHumanSpeechAt # NullTime
    /\ now - lastHumanSpeechAt < HANGOVER_MS

\* The agent buffer changes only as the text deltas and response.completed
\* events are handled, and a text delta with text is put at its end: the
\* buffer is the concatenation, in arrival order, of the deltas handled since
\* it was last emptied.
BufferCollectsDeltas ==
    /\ (assistantBuffer' # assistantBuffer
        => \/ \E i \in 1..MaxStarts, d \in TextDeltas : RealtimeTextDelta(i, d)
           \/ \E i \in 1..MaxStarts : RealtimeResponseCompleted(i))
    /\ (\A i \in 1..MaxStarts, d \in TextDeltas :
           RealtimeTextDelta(i, d)
           => assistantBuffer' =
                IF FalsyText(d) THEN assistantBuffer ELSE assistantBuffer \o d)

\* C25 (as claimed): every response.completed commits the deltas handled
\* since the previous one as one Agent segment holding their trimmed
\* concatenation and leaves the buffer empty; with no delta in between it
\* changes neither the transcript nor the buffer.
C25_CompletedAlwaysFlushes ==
    [][ /\ BufferCollectsDeltas
        /\ (\A i \in 1..MaxStarts :
               RealtimeResponseCompleted(i)
               => /\ assistantBuffer' = <<>>
                  /\ transcript' =
                       IF assistantBuffer = <<>> THEN transcript
                       ELSE transcript \o DipsyPrefix \o Trim(assistantBuffer)
                                \o <<"\n">>) ]_vars

\* C25 (amended): a response.completed handled while the buffer holds text
\* that is not blank appends one Agent segment holding the trimmed buffer
\* and empties the buffer; handled while the buffer is empty or blank it
\* changes neither the transcript nor the buffer, so a blank buffer is kept.
\* Either way the buffer is empty or blank afterwards, so a response.completed
\* handled right after another changes nothing.
C25_FlushWhenNotBlank ==
    [][ /\ BufferCollectsDeltas
        /\ (\A i \in 1..MaxStarts :
               RealtimeResponseCompleted(i)
               => /\ IF Trim(assistantBuffer) # <<>>
                     THEN /\ transcript' =
                               transcript \o DipsyPrefix
                                   \o Trim(assistantBuffer) \o <<"\n">>
                          /\ assistantBuffer' = <<>>
                     ELSE UNCHANGED <<transcript, assistantBuffer>>
                  /\ Trim(assistantBuffer') = <<>>) ]_vars

\* C25 witness: the deltas "Z " and "Q" were handled in this order and the
\* response.completed after them committed the one segment "Z Q" and emptied
\* the buffer.
C25_Witness ==
    /\ budget.text = 0
    /\ transcript = DipsyPrefix \o <<"Z", " ", "Q">> \o <<"\n">>
    /\ assistantBuffer = <<>>

\* The outbound media frame for an audio delta, as the session stands.
OutboundMediaFor(deltaBase64) ==
    [event |-> "media", streamSid |-> streamSid, payload |-> deltaBase64]

\* C26: whenever something is sent to telephony it is one outbound media
\* frame, put after the frames sent before, carrying the session's stream id
\* and as payload the delta of the audio-delta event being handled, while the
\* stream id is present and the telephony socket open; and an audio delta
\* with a payload, handled while nobody speaks, the stream id is present and
\* the socket open, is forwarded as exactly that frame.
C26_OutboundMediaFrames ==
    [][ /\ (twilioSent' # twilioSent
            => /\ streamSid # Null /\ streamSid # ""
               /\ twilioReadyState = "OPEN"
               /\ \E i \in 1..MaxStarts, d \in AudioDeltas :
                     /\ RealtimeAudioDelta(i, d) /\ ~FalsyB64(d)
                     /\ twilioSent' = Append(twilioSent, OutboundMediaFor(d)))
        /\ (\A i \in 1..MaxStarts, d \in AudioDeltas :
               (RealtimeAudioDelta(i, d) /\ ~FalsyB64(d) /\ ~humanSpeaking
                  /\ streamSid # Null /\ twilioReadyState = "OPEN")
               => twilioSent' = Append(twilioSent, OutboundMediaFor(d))) ]_vars

\* C26 witness: two audio deltas were handled and forwarded, and telephony
\* was sent the two frames in the order of the deltas, each with the stream
\* id of the session.
C26_Witness ==
    /\ streamSid = "MZ1"
    /\ twilioSent =
         << [event |-> "media", streamSid |-> "MZ1",
             payload |-> Base64Encode(<<127>>)],
            [event |-> "media", streamSid |-> "MZ1",
             payload |-> Base64Encode(<<255>>)] >>

\* C27: a media frame that gets past the guards while the session's link is
\* open is forwarded as exactly one input_audio_buffer.append on that link,
\* whose audio, decoded from base64, has 4 bytes for every mu-law byte of the
\* frame: the 16-bit little-endian sample of the byte, twice in a row, the
\* samples in the order of the bytes.  Any other media frame sends nothing,
\* and no media frame sends anything on another link.
C27_ForwardedPcm ==
    [][ \A p \in MediaPayloads :
          TwilioMedia(p)
          => IF MediaProcessed(p) /\ links[openaiWs].readyState = "OPEN"
             THEN LET sent == links'[openaiWs].sent
                      mulawBuf == Base64Decode(p)
                      forwarded == Base64Decode(Last(sent).audio)
                  IN /\ Len(sent) = Len(links[openaiWs].sent) + 1
                     /\ SubSeq(sent, 1, Len(sent) - 1) = links[openaiWs].sent
                     /\ Last(sent).type = "input_audio_buffer.append"
                     /\ Len(forwarded) = 4 * Len(mulawBuf)
                     /\ \A k \in 1..Len(mulawBuf) :
                           LET sample == mulawToLinearSample(mulawBuf[k])
                           IN SubSeq(forwarded, 4 * k - 3, 4 * k) =
                                Int16LEBytes(sample) \o Int16LEBytes(sample)
                     /\ \A j \in LinkIds \ {openaiWs} : links'[j] = links[j]
             ELSE \A j \in LinkIds : links'[j].sent = links[j].sent ]_vars

\* C27 witness: the frame with the mu-law bytes 0xFF 0x00 (samples 0 and
\* -32124) was forwarded as the 8 bytes of 0, 0, -32124, -32124.
C27_Witness ==
    /\ Len(links) = 1 /\ Len(links[1].sent) = 3
    /\ links[1].sent[3].type = "input_audio_buffer.append"
    /\ Base64Decode(links[1].sent[3].audio) =
         <<0, 0, 0, 0, 132, 130, 132, 130>>

\* Bits lo .. lo + n - 1 of v, and x shifted left by n bits.
Bits(v, lo, n) == (v \div Pow2(lo)) % Pow2(n)
ShiftLeft(x, n) == x * Pow2(n)

\* The linear sample the claim gives for the mu-law byte u.
ClaimedSample(u) ==
    LET v == 255 - u
        exponent == Bits(v, 4, 3)
        mantissa == Bits(v, 0, 4)
        magnitude == ShiftLeft(ShiftLeft(mantissa, 3) + 132, exponent) - 132
    IN IF Bits(v, 7, 1) = 1 THEN 0 - magnitude ELSE magnitude

\* C28: for each of the 256 mu-law bytes u, the frame holding u is forwarded
\* as the 16-bit sample (((mantissa << 3) + 0x84) << exponent) - 0x84 of
\* v = NOT u, negated when bit 7 of v is set: read back as a signed 16-bit
\* little-endian number, the forwarded audio is that sample (twice), so the
\* sample fits 16 bits; and the bytes 0xFF and 0x7F give 0.
C28_MulawDecode ==
    [][ \A u \in MulawBytes :
          TwilioMedia(Base64Encode(<<u>>)) /\ MediaProcessed(Base64Encode(<<u>>))
          => LET forwarded == Base64Decode(Last(links'[openaiWs].sent).audio)
             IN /\ Len(forwarded) = 4
                /\ readInt16LE(forwarded, 0) = ClaimedSample(u)
                /\ readInt16LE(forwarded, 2) = ClaimedSample(u)
                /\ ClaimedSample(u) \in -32768..32767
                /\ (u \in {255, 127} => ClaimedSample(u) = 0) ]_vars

\* C28 witness: the byte 0x80, whose sample 32124 is the largest, was
\* forwarded as 32124.
C28_Witness ==
    /\ budget = [DecodeRun EXCEPT !.start = 0, !.media = 0]
    /\ Len(links) = 1 /\ Len(links[1].sent) = 3
    /\ links[1].sent[3].type = "input_audio_buffer.append"
    /\ readInt16LE(Base64Decode(links[1].sent[3].audio), 0) = 32124
    /\ ClaimedSample(128) = 32124

\* C29: a `start` frame sets direction to INBOUND exactly when its direction
\* parameter is "INBOUND" and to OUTBOUND otherwise, call_type to FOLLOWUP
\* exactly when its call_type parameter is "FOLLOWUP" and to FIRST otherwise,
\* and last_summary and last_transcript to the parameter when it is a
\* non-empty string and to null otherwise.
C29_StartParameters ==
    [][ \A f \in ParamFrames :
          TwilioStart(f)
          => /\ direction' \in {"INBOUND", "OUTBOUND"}
             /\ (direction' = "INBOUND" <=> f.direction = "INBOUND")
             /\ callType' \in {"FIRST", "FOLLOWUP"}
             /\ (callType' = "FOLLOWUP" <=> f.call_type = "FOLLOWUP")
             /\ lastSummary' =
                  (IF f.last_summary \in {Null, ""} THEN Null
                   ELSE f.last_summary)
             /\ lastTranscript' =
                  (IF f.last_transcript \in {Null, ""} THEN Null
                   ELSE f.last_transcript) ]_vars

\* C29 witness: after a first `start` the last one handled has left the
\* session inbound, a first call, without summary and with a transcript
\* excerpt.
C29_Witness ==
    /\ budget = [ParamRun EXCEPT !.start = 0]
    /\ Len(links) = MaxStarts
    /\ direction = "INBOUND" /\ callType = "FIRST"
    /\ lastSummary = Null /\ lastTranscript = "prior excerpt"

\* The four opening directives, by direction and call type.
DirectiveFor ==
    [d \in {"INBOUND", "OUTBOUND"}, c \in {"FIRST", "FOLLOWUP"} |->
        IF d = "INBOUND" /\ c = "FIRST" THEN "inbound first"
        ELSE IF d = "INBOUND" /\ c = "FOLLOWUP" THEN "inbound follow-up"
        ELSE IF d = "OUTBOUND" /\ c = "FIRST" THEN "outbound first"
        ELSE "outbound follow-up"]

\* C30: when a realtime link opens it is sent a session.update and then a
\* response.create whose directive is the one of the four (pairwise
\* distinct) variants that belongs to the direction and call type the
\* session holds at that moment; the instructions of the session.update
\* inline last_summary and last_transcript, each replaced by its placeholder
\* when absent, exactly when the call type is FOLLOWUP.
C30_InitialDirective ==
    [][ \A i \in 1..MaxStarts :
          LinkOpen(i)
          => LET sent == links'[i].sent
                 update == sent[Len(sent) - 1]
                 create == sent[Len(sent)]
             IN /\ Len(sent) = Len(links[i].sent) + 2
                /\ Cardinality({ DirectiveFor[d, c] :
                                    d \in {"INBOUND", "OUTBOUND"},
                                    c \in {"FIRST", "FOLLOWUP"} }) = 4
                /\ create.type = "response.create"
                /\ create.instructions = DirectiveFor[direction, callType]
                /\ update.type = "session.update"
                /\ IF callType = "FOLLOWUP"
                   THEN /\ Len(update.instructions) = 4
                        /\ update.instructions[3] =
                             (IF lastSummary = Null
                              THEN "(No prior AI summary was provided.)"
                              ELSE lastSummary)
                        /\ update.instructions[4] =
                             (IF lastTranscript = Null
                              THEN "(No prior transcript snippet was provided.)"
                              ELSE lastTranscript)
                   ELSE Range(update.instructions) \cap
                          { "prior notes", "prior excerpt",
                            "(No prior AI summary was provided.)",
                            "(No prior transcript snippet was provided.)" }
                          = {} ]_vars

\* C30 witness: the first link opened only after a second `start` had made
\* the call an outbound follow-up without summary; it was sent the follow-up
\* block with the summary placeholder and the transcript excerpt, and the
\* outbound follow-up directive.
C30_Witness ==
    /\ Len(links) = 2
    /\ direction = "OUTBOUND" /\ callType = "FOLLOWUP"
    /\ links[1].sent =
         << [type |-> "session.update",
             instructions |->
                <<"BASE", "FOLLOWUP_CONTEXT",
                  "(No prior AI summary was provided.)", "prior excerpt">>],
            [type |-> "response.create",
             instructions |-> "outbound follow-up"] >>
    /\ links[2].sent = <<>>

\* C31: a realtime `error` event, a realtime event of another type and a
\* realtime message that is not JSON change nothing of the session
\* (identifiers and metadata, transcript, agent buffer, VAD state, ready flag,
\* handle), send nothing on any link or to telephony, start no summary
\* request or post, close no socket, and leave the link delivering events.
C31_RealtimeNoiseIgnored ==
    [][ \A i \in 1..MaxStarts, kind \in {"error", "unknown", "not JSON"} :
          RealtimeIgnored(i, kind)
          => /\ UNCHANGED <<ctxMeta, ctxLink, ctxText, ctxVad>>
             /\ UNCHANGED <<links, twilioSent, summaryRequests, posts, pending>>
             /\ UNCHANGED <<twilioReadyState, bridgeClosed>>
             /\ LinkDelivers(i)' ]_vars

\* C31 witness: such an event was handled on the open link of a session
\* that is ready, holds agent text in its buffer and a caller segment in its
\* transcript, and whose sockets are both open.
C31_Witness ==
    /\ budget.misc = 0 /\ budget.text = TextRun.text - 2
    /\ openaiReady /\ openaiWs = 1 /\ links[1].readyState = "OPEN"
    /\ twilioReadyState = "OPEN"
    /\ assistantBuffer = <<"Q">>
    /\ transcript = CallerPrefix \o <<"h", "i", "\n">>

\* C32: a telephony frame that is not JSON, a `mark` frame and a frame with
\* another event tag change nothing of the session, send nothing on any link
\* or to telephony, start no summary request or post, close no socket, and
\* leave the telephony socket delivering frames.
C32_TelephonyNoiseIgnored ==
    [][ \A kind \in {"mark", "unknown", "not JSON"} :
          TwilioIgnored(kind)
          => /\ UNCHANGED <<ctxMeta, ctxLink, ctxText, ctxVad>>
             /\ UNCHANGED <<links, twilioSent, summaryRequests, posts, pending>>
             /\ UNCHANGED <<twilioReadyState, bridgeClosed>>
             /\ TwilioDelivers' ]_vars

\* C32 witness: such a frame was handled before any `start`, on a session
\* that is as it was constructed, and the `start` and `stop` frames are still
\* to come.
C32_Witness ==
    /\ budget = [TextRun EXCEPT !.misc = 0]
    /\ links = <<>> /\ openaiWs = NoLink
    /\ twilioReadyState = "OPEN"
    /\ callSid = Null /\ transcript = <<>>

\* The first of ATLAS_VOICE_INTERNAL_SECRET, VOICE_SERVER_WEBHOOK_SECRET that
\* holds a non-empty value, Null when neither does.
FirstNonEmptySecret ==
    IF ~Falsy(env.ATLAS_VOICE_INTERNAL_SECRET)
    THEN env.ATLAS_VOICE_INTERNAL_SECRET
    ELSE IF ~Falsy(env.VOICE_SERVER_WEBHOOK_SECRET)
    THEN env.VOICE_SERVER_WEBHOOK_SECRET
    ELSE Null

\* The step calls logCallToSupabase with a call id, and the sink URL and the
\* anon key are set: the shared secret is looked up.
SecretLookedUp ==
    /\ ~Falsy(callSid)
    /\ ~Falsy(env.SUPABASE_URL) /\ ~Falsy(env.SUPABASE_ANON_KEY)
    /\ \/ /\ TwilioStop
          /\ Trim(transcript) # <<>>
          /\ Len(Trim(transcript)) < SUMMARY_MIN_LENGTH
       \/ \E k \in 1..MaxStops, o \in SummaryOutcomes : SummaryReturned(k, o)

\* C33: whenever the shared secret is looked up and at least one of the two
\* names holds a non-empty value, the call-log post is sent with the first
\* non-empty of them as its secret; the post is refused only when neither
\* holds a non-empty value.
C33_FirstNonEmptySecret ==
    [][ SecretLookedUp
        => IF FirstNonEmptySecret # Null
           THEN /\ Len(posts') = Len(posts) + 1
                /\ Last(posts').secret = FirstNonEmptySecret
           ELSE posts' = posts ]_vars

\* C34: whenever the ready flag is set, the session's realtime handle is not
\* null and refers to a link that has itself reported open and has been sent
\* session.update and then response.create.
C34_ReadyFlagConsistent ==
    openaiReady
    => /\ openaiWs # NoLink
       /\ links[openaiWs].readyState # "CONNECTING"
       /\ Len(links[openaiWs].sent) >= 2
       /\ links[openaiWs].sent[1].type = "session.update"
       /\ links[openaiWs].sent[2].type = "response.create"

\* C35: every posted call-log record carries the call id and the direction
\* the session held when a `stop` frame began to be handled (as logged then
\* by saveTranscriptAndSummary), with the transcript of that moment.
C35_PostedRecordIsStopSnapshot ==
    \A k \in 1..Len(posts) :
        \E j \in 1..Len(preparedCalls) :
            /\ posts[k].twilio_call_sid = preparedCalls[j].call_sid
            /\ posts[k].direction = preparedCalls[j].direction
            /\ Len(posts[k].transcript) = preparedCalls[j].transcript_length

\* C36: once a `stop` frame has begun to be handled, no step sends an
\* input_audio_buffer.append on a realtime link or an outbound media frame to
\* telephony.
C36_NoAudioAfterStop ==
    [][ stopEvents > 0
        => /\ twilioSent' = twilioSent
           /\ \A i \in LinkIds :
                 Len(links'[i].sent) > Len(links[i].sent)
                 => Last(links'[i].sent).type # "input_audio_buffer.append" ]_vars

====
